---- MODULE Spec2Model ----
(***************************************************************************)
(* A model of the Shasper beacon-chain reward computation                  *)
(* (casper/src/reward.rs), of the SSZ fixed-vector codec                   *)
(* (utils/ssz/src/fixed.rs) and of the block executor                      *)
(* (blockchain/src/lib.rs).                                                *)
(***************************************************************************)
EXTENDS Integers, Sequences, FiniteSets

(***************************************************************************)
(* Bounds of the model.                                                    *)
(***************************************************************************)
\* Width in bits of the Balance type.  The code is generic over Balance
\* (u64 in the beacon chain); the model keeps the width and scales it down.
BalanceBits == 6
\* Number of validators in the store.
NumValidators == 2
\* Number of pending attestations the store may hold.
MaxAttestations == 2
\* Largest inclusion distance of an attestation.
MaxDistance == 2

Modulus == 2 ^ BalanceBits
MaxBalance == Modulus - 1

Validators == 1 .. NumValidators
\* The store's previous epoch and current epoch.
Epochs == 0 .. 1
\* The balance validator i holds in the store.
BalanceOf(i) == 11 * i + 1
\* Configurations default_scheme_rewards is called with.
Configs ==
  [ base_reward_quotient : {2, 4},
    inactivity_penalty_quotient : {2},
    includer_reward_quotient : {1},
    min_attestation_inclusion_delay : {1, 2} ]
\* Values of epochs_since_finality default_scheme_rewards is called with.
FinalityValues == {4, 5}

(***************************************************************************)
(* Balance arithmetic.  A Balance value is a record: val is the machine    *)
(* value, st tells how it came about: "ok", "wrapped" (some step on the    *)
(* way exceeded the type and wrapped modulo 2^BalanceBits) or "panic"      *)
(* (the thread panicked: a division by zero).  Rust's +, - and * wrap in   *)
(* a build without overflow checks; in a build with overflow checks the    *)
(* step that would wrap panics instead (see Checked).                      *)
(***************************************************************************)
Bal(n) == [val |-> n, st |-> "ok"]

Panic == [val |-> 0, st |-> "panic"]

Join(a, b) ==
  IF a.st = "panic" \/ b.st = "panic" THEN "panic"
  ELSE IF a.st = "wrapped" \/ b.st = "wrapped" THEN "wrapped"
  ELSE "ok"

Fit(n, st) ==
  IF st = "panic" THEN Panic
  ELSE IF n >= 0 /\ n < Modulus THEN [val |-> n, st |-> st]
  ELSE [val |-> n % Modulus, st |-> "wrapped"]

BAdd(a, b) == Fit(a.val + b.val, Join(a, b))

BSub(a, b) == Fit(a.val - b.val, Join(a, b))

BMul(a, b) == Fit(a.val * b.val, Join(a, b))

BDiv(a, b) ==
  IF Join(a, b) = "panic" \/ b.val = 0 THEN Panic
  ELSE [val |-> a.val \div b.val, st |-> Join(a, b)]

(***************************************************************************)
(* integer_sqrt: Newton iteration until the iterate stops decreasing.      *)
(***************************************************************************)
RECURSIVE sqrt_loop(_, _, _)
sqrt_loop(n, x, y) ==
  IF y.st = "panic" THEN Panic
  ELSE IF y.val < x.val
    THEN sqrt_loop(n, y, BDiv(BAdd(y, BDiv(n, y)), Bal(2)))
    ELSE [val |-> x.val, st |-> Join(x, y)]

integer_sqrt(n) ==
  IF n.st = "panic" THEN Panic
  ELSE sqrt_loop(n, n, BDiv(BAdd(n, Bal(1)), Bal(2)))

(***************************************************************************)
(* State.                                                                  *)
(***************************************************************************)
VARIABLES
  balances,        \* ValidatorStore: validator id -> balance
  active,          \* ValidatorStore: epoch -> validators active at it
  store_epoch,     \* BlockStore: the store's current epoch
  attestations,    \* PendingAttestationsStore: the pending attestations
  context,         \* the CasperContext casper_rewards was called with
  pc,              \* position in the reward computation
  beacon_out,      \* what beacon_rewards returned
  casper_out,      \* what casper_rewards returned
  call,            \* arguments default_scheme_rewards was called with
  rewards_out,     \* what default_scheme_rewards returned
  overflow_checks, \* integer_sqrt: whether the build checks for overflow
  sqrt_n,          \* integer_sqrt: the argument
  sqrt_x,          \* integer_sqrt: the local x
  sqrt_y,          \* integer_sqrt: the local y
  sqrt_pc,         \* integer_sqrt: position in the function
  len,             \* ssz: the length L of the FixedVec<bool, L> type
  vector,          \* ssz: the boolean vector that was encoded
  value,           \* ssz: the bytes handed to the decoder
  ret,             \* ssz: what the decoder returned
  ssz_pc,          \* ssz: position of the codec
  state,           \* executor: the BeaconState held by the externalities
  pre_state,       \* executor: the state when the last call was made
  unsealed_block,  \* executor: the block under construction
  exec_out,        \* executor: what the last call returned
  justified_out    \* executor: what justified_block_id returned, if it was
                   \* the last call

rewards_vars ==
  << balances, active, store_epoch, attestations, context, pc,
     beacon_out, casper_out, call, rewards_out >>

sqrt_vars == << overflow_checks, sqrt_n, sqrt_x, sqrt_y, sqrt_pc >>

ssz_vars == << len, vector, value, ret, ssz_pc >>

exec_vars == << state, pre_state, unsealed_block, exec_out, justified_out >>

vars == << rewards_vars, sqrt_vars, ssz_vars, exec_vars >>

\* integer_sqrt has not been called.
SqrtIdle ==
  /\ overflow_checks = FALSE
  /\ sqrt_n = 0
  /\ sqrt_x = 0
  /\ sqrt_y = 0
  /\ sqrt_pc = "idle"

\* The codec has not been used.
SszIdle ==
  /\ len = 0
  /\ vector = << >>
  /\ value = << >>
  /\ ret = [ok |-> FALSE, error |-> "none", vector |-> << >>]
  /\ ssz_pc = "idle"

\* No executor exists.
ExecIdle ==
  /\ state = << >>
  /\ pre_state = << >>
  /\ unsealed_block = << >>
  /\ exec_out = "none"
  /\ justified_out = << >>

\* No reward computation is under way.
RewardsIdle ==
  /\ balances = << >>
  /\ active = << >>
  /\ store_epoch = 0
  /\ attestations = << >>
  /\ context = << >>
  /\ pc = "idle"
  /\ beacon_out = << >>
  /\ casper_out = << >>
  /\ call = << >>
  /\ rewards_out = << >>

(***************************************************************************)
(* The store: ValidatorStore, BlockStore and PendingAttestationsStore are  *)
(* traits; the model gives them the plain implementation.                  *)
(***************************************************************************)
\* The attestations pushed to the store.  A field that neither
\* beacon_rewards nor casper_rewards reads for an attestation (the slot
\* fields when the target epoch is not the previous epoch, the target flag
\* when the source epoch is not the previous justified epoch) is held at
\* one value.
Attestations ==
  { a \in [ validator_id : Validators,
            source_epoch : Epochs,
            target_epoch : Epochs,
            is_casper_canon : BOOLEAN,
            is_slot_canon : BOOLEAN,
            inclusion_distance : 1 .. MaxDistance ] :
      /\ a.target_epoch = 1 => ~a.is_slot_canon /\ a.inclusion_distance = 1
      /\ a.source_epoch = 1 => ~a.is_casper_canon }

RECURSIVE SetToSeq(_)
SetToSeq(S) ==
  IF S = {} THEN << >>
  ELSE LET m == CHOOSE x \in S : \A y \in S : x <= y
       IN << m >> \o SetToSeq(S \ {m})

\* store.active_validators(epoch): the ids active at the epoch.
active_validators(epoch) == SetToSeq(active[epoch])

\* store.previous_epoch()
previous_epoch == store_epoch - 1

\* store.total_balance(ids): the sum of the balances of the listed ids.
RECURSIVE total_balance(_)
total_balance(ids) ==
  IF ids = << >> THEN Bal(0)
  ELSE BAdd(total_balance(Tail(ids)), Bal(balances[Head(ids)]))

Retain(list, validator_id) ==
  LET Keep(id) == id # validator_id IN SelectSeq(list, Keep)

(***************************************************************************)
(* beacon_rewards                                                          *)
(***************************************************************************)
BeaconEntry(id, type, distance) ==
  [validator_id |-> id, reward_type |-> type, distance |-> distance]

\* A variant of beacon_loop without the test of the target epoch.
RECURSIVE beacon_loop_any_epoch(_, _, _)
beacon_loop_any_epoch(atts, rewards, no_expected_head_validators) ==
  IF atts = << >>
    THEN [rewards |-> rewards, rest |-> no_expected_head_validators]
  ELSE
    LET attestation == Head(atts)
        r1 == Append(rewards,
                BeaconEntry(attestation.validator_id, "InclusionDistance",
                            attestation.inclusion_distance))
    IN IF attestation.is_slot_canon
         THEN beacon_loop_any_epoch(Tail(atts),
                Append(r1, BeaconEntry(attestation.validator_id,
                                       "ExpectedHead", 0)),
                Retain(no_expected_head_validators, attestation.validator_id))
         ELSE beacon_loop_any_epoch(Tail(atts), r1,
                                    no_expected_head_validators)

RECURSIVE beacon_loop(_, _, _)
beacon_loop(atts, rewards, no_expected_head_validators) ==
  IF atts = << >>
    THEN [rewards |-> rewards, rest |-> no_expected_head_validators]
  ELSE
    LET attestation == Head(atts) IN
    IF attestation.target_epoch = previous_epoch
      THEN
        LET r1 == Append(rewards,
                    BeaconEntry(attestation.validator_id, "InclusionDistance",
                                attestation.inclusion_distance))
        IN IF attestation.is_slot_canon
             THEN beacon_loop(Tail(atts),
                    Append(r1, BeaconEntry(attestation.validator_id,
                                           "ExpectedHead", 0)),
                    Retain(no_expected_head_validators,
                           attestation.validator_id))
             ELSE beacon_loop(Tail(atts), r1, no_expected_head_validators)
      ELSE beacon_loop(Tail(atts), rewards, no_expected_head_validators)

beacon_rewards ==
  LET done == beacon_loop(attestations, << >>, active_validators(store_epoch))
  IN done.rewards \o
     [i \in 1 .. Len(done.rest) |-> BeaconEntry(done.rest[i], "NoExpectedHead", 0)]

(***************************************************************************)
(* casper_rewards                                                          *)
(***************************************************************************)
CasperEntry(id, type) == [validator_id |-> id, reward_type |-> type]

RECURSIVE casper_loop(_, _, _, _, _)
casper_loop(atts, previous_justified_epoch, rewards, no_source, no_target) ==
  IF atts = << >>
    THEN [rewards |-> rewards, no_source |-> no_source, no_target |-> no_target]
  ELSE
    LET attestation == Head(atts) IN
    IF attestation.source_epoch = previous_justified_epoch
      THEN
        LET r1 == Append(rewards,
                    CasperEntry(attestation.validator_id, "ExpectedSource"))
            s1 == Retain(no_source, attestation.validator_id)
        IN IF attestation.is_casper_canon
             THEN casper_loop(Tail(atts), previous_justified_epoch,
                    Append(r1, CasperEntry(attestation.validator_id,
                                           "ExpectedTarget")),
                    s1, Retain(no_target, attestation.validator_id))
             ELSE casper_loop(Tail(atts), previous_justified_epoch, r1, s1, no_target)
      ELSE casper_loop(Tail(atts), previous_justified_epoch, rewards,
                       no_source, no_target)

casper_rewards(context_) ==
  LET start == active_validators(context_.epoch)
      done == casper_loop(attestations, context_.previous_justified_epoch,
                          << >>, start, start)
  IN done.rewards \o
     [i \in 1 .. Len(done.no_source) |->
        CasperEntry(done.no_source[i], "NoExpectedSource")] \o
     [i \in 1 .. Len(done.no_target) |->
        CasperEntry(done.no_target[i], "NoExpectedTarget")]

(***************************************************************************)
(* default_scheme_rewards                                                  *)
(***************************************************************************)
\* The sequence F(s[1]) \o ... \o F(s[Len(s)]): a for loop that pushes.
FlatMap(s, F(_)) ==
  LET f[i \in 0 .. Len(s)] == IF i = 0 THEN << >> ELSE f[i - 1] \o F(s[i])
  IN f[Len(s)]

RewardAction(id, action, amount) ==
  [validator_id |-> id, action |-> action, amount |-> amount]

\* The ids of the entries whose reward type is one of types (the
\* *_total_head vectors).
TotalHead(rewards, types) ==
  LET Id(e) == IF e.reward_type \in types THEN << e.validator_id >> ELSE << >>
  IN FlatMap(rewards, Id)

\* The arguments and captured values the closures of a call share:
\* the configuration, epochs_since_finality and previous_total_balance.
\* base_reward takes integer_sqrt(previous_total_balance) anew at every
\* call; it is the same value every time and is kept here.
Env(epochs_since_finality, config) ==
  LET previous_total_balance ==
        total_balance(active_validators(previous_epoch))
  IN [ epochs_since_finality |-> epochs_since_finality,
       config |-> config,
       previous_total_balance |-> previous_total_balance,
       sqrt_previous_total_balance |-> integer_sqrt(previous_total_balance) ]

base_reward(validator_id, env) ==
  BDiv(BDiv(total_balance(<< validator_id >>),
            BDiv(env.sqrt_previous_total_balance,
                 Bal(env.config.base_reward_quotient))),
       Bal(5))

inactivity_penalty(validator_id, env) ==
  BAdd(base_reward(validator_id, env),
       BDiv(BDiv(BMul(total_balance(<< validator_id >>),
                      Bal(env.epochs_since_finality)),
                 Bal(env.config.inactivity_penalty_quotient)),
            Bal(2)))

\* Normal mode, beacon expected head.
normal_head(beacon_rewards_, env) ==
  LET beacon_total_balance ==
        total_balance(TotalHead(beacon_rewards_,
                                {"ExpectedHead", "NoExpectedHead"}))
      One(e) ==
        (IF e.reward_type = "ExpectedHead"
           THEN << RewardAction(e.validator_id, "Add",
                     BDiv(BMul(base_reward(e.validator_id, env),
                               beacon_total_balance),
                          env.previous_total_balance)) >>
           ELSE << >>) \o
        (IF e.reward_type = "NoExpectedHead"
           THEN << RewardAction(e.validator_id, "Sub",
                     base_reward(e.validator_id, env)) >>
           ELSE << >>)
  IN [total |-> beacon_total_balance, rewards |-> FlatMap(beacon_rewards_, One)]

\* Normal mode, beacon inclusion distance.
normal_inclusion(beacon_rewards_, env) ==
  LET One(e) ==
        IF e.reward_type = "InclusionDistance"
          THEN << RewardAction(e.validator_id, "Add",
                    BDiv(BDiv(base_reward(e.validator_id, env),
                              Bal(env.config.min_attestation_inclusion_delay)),
                         Bal(e.distance))) >>
          ELSE << >>
  IN FlatMap(beacon_rewards_, One)

\* Normal mode, casper expected source.
normal_source(casper_rewards_, env) ==
  LET casper_source_total_balance ==
        total_balance(TotalHead(casper_rewards_,
                                {"ExpectedSource", "NoExpectedSource"}))
      One(e) ==
        (IF e.reward_type = "ExpectedSource"
           THEN << RewardAction(e.validator_id, "Add",
                     BDiv(BMul(base_reward(e.validator_id, env),
                               casper_source_total_balance),
                          env.previous_total_balance)) >>
           ELSE << >>) \o
        (IF e.reward_type = "NoExpectedSource"
           THEN << RewardAction(e.validator_id, "Sub",
                     base_reward(e.validator_id, env)) >>
           ELSE << >>)
  IN [total |-> casper_source_total_balance,
      rewards |-> FlatMap(casper_rewards_, One)]

\* Normal mode, casper expected target.
normal_target(casper_rewards_, env) ==
  LET casper_target_total_balance ==
        total_balance(TotalHead(casper_rewards_,
                                {"ExpectedTarget", "NoExpectedTarget"}))
      One(e) ==
        (IF e.reward_type = "ExpectedTarget"
           THEN << RewardAction(e.validator_id, "Add",
                     BDiv(BMul(base_reward(e.validator_id, env),
                               casper_target_total_balance),
                          env.previous_total_balance)) >>
           ELSE << >>) \o
        (IF e.reward_type = "NoExpectedTarget"
           THEN << RewardAction(e.validator_id, "Sub",
                     base_reward(e.validator_id, env)) >>
           ELSE << >>)
  IN [total |-> casper_target_total_balance,
      rewards |-> FlatMap(casper_rewards_, One)]

\* Leak mode, beacon expected head.
leak_head(beacon_rewards_, env) ==
  LET One(e) ==
        IF e.reward_type = "NoExpectedHead"
          THEN << RewardAction(e.validator_id, "Sub",
                    inactivity_penalty(e.validator_id, env)) >>
          ELSE << >>
  IN FlatMap(beacon_rewards_, One)

\* Leak mode, beacon inclusion distance.
leak_inclusion(beacon_rewards_, env) ==
  LET One(e) ==
        IF e.reward_type = "InclusionDistance"
          THEN << RewardAction(e.validator_id, "Sub",
                    BSub(base_reward(e.validator_id, env),
                         BDiv(BMul(base_reward(e.validator_id, env),
                                   Bal(env.config.min_attestation_inclusion_delay)),
                              Bal(e.distance)))) >>
          ELSE << >>
  IN FlatMap(beacon_rewards_, One)

\* A variant of leak_casper whose second test is on NoExpectedTarget, the
\* reading under which the repeated NoExpectedSource test is a slip.
leak_casper_target(casper_rewards_, env) ==
  LET One(e) ==
        (IF e.reward_type = "NoExpectedSource"
           THEN << RewardAction(e.validator_id, "Sub",
                     base_reward(e.validator_id, env)) >>
           ELSE << >>) \o
        (IF e.reward_type = "NoExpectedTarget"
           THEN << RewardAction(e.validator_id, "Sub",
                     inactivity_penalty(e.validator_id, env)) >>
           ELSE << >>)
  IN FlatMap(casper_rewards_, One)

\* Leak mode, casper expected source and casper expected target.
leak_casper(casper_rewards_, env) ==
  LET One(e) ==
        (IF e.reward_type = "NoExpectedSource"
           THEN << RewardAction(e.validator_id, "Sub",
                     base_reward(e.validator_id, env)) >>
           ELSE << >>) \o
        (IF e.reward_type = "NoExpectedSource"
           THEN << RewardAction(e.validator_id, "Sub",
                     inactivity_penalty(e.validator_id, env)) >>
           ELSE << >>)
  IN FlatMap(casper_rewards_, One)

\* A variant of leak_active that leaves the base reward out of the penalty.
leak_active_no_base(env) ==
  LET One(id) ==
        << RewardAction(id, "Sub",
             BMul(inactivity_penalty(id, env), Bal(2))) >>
  IN FlatMap(active_validators(previous_epoch), One)

\* Leak mode, punish all active validators.
leak_active(env) ==
  LET One(id) ==
        << RewardAction(id, "Sub",
             BAdd(BMul(inactivity_penalty(id, env),
                       Bal(2)),
                  base_reward(id, env))) >>
  IN FlatMap(active_validators(previous_epoch), One)

\* A variant of is_normal_mode with the threshold off by one.
is_normal_mode_strict(epochs_since_finality) == epochs_since_finality < 4

\* Whether the call is in normal mode.
is_normal_mode(epochs_since_finality) == epochs_since_finality <= 4

\* What the caller gets in a build without overflow checks: the thread
\* panicked, or the vector `rewards`; wrapped tells whether a step of the
\* call wrapped.
Returned(computed, totals) ==
  LET sts == {computed[i].amount.st : i \in 1 .. Len(computed)} \cup
             {t.st : t \in totals}
  IN IF "panic" \in sts
       THEN [st |-> "panic", wrapped |-> FALSE, rewards |-> << >>]
       ELSE [st |-> "returned",
             wrapped |-> "wrapped" \in sts,
             rewards |-> [i \in 1 .. Len(computed) |->
                            RewardAction(computed[i].validator_id,
                                         computed[i].action,
                                         computed[i].amount.val)]]

\* The same call in a build with overflow checks: the step that wraps
\* panics.
Checked(result) ==
  IF result.wrapped
    THEN [st |-> "panic", wrapped |-> FALSE, rewards |-> << >>]
    ELSE result

default_scheme_rewards(beacon_rewards_, casper_rewards_, epochs_since_finality, config) ==
  LET env == Env(epochs_since_finality, config) IN
  IF is_normal_mode(epochs_since_finality)
    THEN
      LET head == normal_head(beacon_rewards_, env)
          source == normal_source(casper_rewards_, env)
          target == normal_target(casper_rewards_, env)
      IN Returned(head.rewards \o normal_inclusion(beacon_rewards_, env) \o
                  source.rewards \o target.rewards,
                  {env.previous_total_balance, head.total, source.total,
                   target.total})
    ELSE
      Returned(leak_head(beacon_rewards_, env) \o
               leak_inclusion(beacon_rewards_, env) \o
               leak_casper(casper_rewards_, env) \o
               leak_active(env),
               {env.previous_total_balance})

(***************************************************************************)
(* The reward computation of an epoch: attestations are pushed to the      *)
(* store, then beacon_rewards and casper_rewards classify them, then       *)
(* default_scheme_rewards turns the classes into reward actions.           *)
(***************************************************************************)
NoCall == [epochs_since_finality |-> 0, config |-> << >>]

NoContext == [epoch |-> 0, previous_justified_epoch |-> 0]

NoResult == [st |-> "none", wrapped |-> FALSE, rewards |-> << >>]

Contexts == [epoch : Epochs, previous_justified_epoch : {0}]

InitRewards ==
  /\ balances = [i \in Validators |-> BalanceOf(i)]
  /\ active \in [Epochs -> SUBSET Validators]
  /\ store_epoch = 1
  /\ attestations = << >>
  /\ context = NoContext
  /\ pc = "collect"
  /\ beacon_out = << >>
  /\ casper_out = << >>
  /\ call = NoCall
  /\ rewards_out = NoResult
  /\ SqrtIdle
  /\ SszIdle
  /\ ExecIdle

PushAttestation ==
  /\ pc = "collect"
  /\ Len(attestations) < MaxAttestations
  /\ \E a \in Attestations : attestations' = Append(attestations, a)
  /\ UNCHANGED << balances, active, store_epoch, context, pc, beacon_out,
                  casper_out, call, rewards_out >>
  /\ UNCHANGED << sqrt_vars, ssz_vars, exec_vars >>

BeaconRewards ==
  /\ pc = "collect"
  /\ beacon_out' = beacon_rewards
  /\ pc' = "beacon"
  /\ UNCHANGED << balances, active, store_epoch, attestations, context,
                  casper_out, call, rewards_out >>
  /\ UNCHANGED << sqrt_vars, ssz_vars, exec_vars >>

CasperRewards ==
  /\ pc = "beacon"
  /\ \E c \in Contexts :
       /\ context' = c
       /\ casper_out' = casper_rewards(c)
  /\ pc' = "casper"
  /\ UNCHANGED << balances, active, store_epoch, attestations, beacon_out,
                  call, rewards_out >>
  /\ UNCHANGED << sqrt_vars, ssz_vars, exec_vars >>

DefaultSchemeRewards ==
  /\ pc = "casper"
  /\ \E esf \in FinalityValues, config \in Configs :
       LET result == default_scheme_rewards(beacon_out, casper_out, esf, config)
       IN /\ call' = [epochs_since_finality |-> esf, config |-> config]
          /\ rewards_out' \in {result, Checked(result)}
  /\ pc' = "done"
  /\ UNCHANGED << balances, active, store_epoch, attestations, context,
                  beacon_out, casper_out >>
  /\ UNCHANGED << sqrt_vars, ssz_vars, exec_vars >>

NextRewards ==
  \/ PushAttestation
  \/ BeaconRewards
  \/ CasperRewards
  \/ DefaultSchemeRewards

Spec == InitRewards /\ [][NextRewards]_vars

(***************************************************************************)
(* integer_sqrt, statement by statement.                                   *)
(***************************************************************************)
\* The outcome of an arithmetic expression in the build: a division by
\* zero panics in every build, a wrapped step panics in a build with
\* overflow checks.
Outcome(r) ==
  IF r.st = "panic" \/ (r.st = "wrapped" /\ overflow_checks) THEN Panic ELSE r

InitSqrt ==
  /\ overflow_checks \in BOOLEAN
  /\ sqrt_n \in 0 .. MaxBalance
  /\ sqrt_x = 0
  /\ sqrt_y = 0
  /\ sqrt_pc = "call"
  /\ RewardsIdle
  /\ SszIdle
  /\ ExecIdle

\* let mut x = n.clone(); let mut y = (x.clone() + 1) / 2;
SqrtEnter ==
  /\ sqrt_pc = "call"
  /\ sqrt_x' = sqrt_n
  /\ LET r == Outcome(BDiv(BAdd(Bal(sqrt_n), Bal(1)), Bal(2)))
     IN /\ sqrt_y' = r.val
        /\ sqrt_pc' = IF r.st = "panic" THEN "panic" ELSE "while"
  /\ UNCHANGED << overflow_checks, sqrt_n, rewards_vars, ssz_vars,
                  exec_vars >>

\* while y < x { x = y.clone(); y = (x.clone() + n.clone() / x.clone()) / 2; }
SqrtIterate ==
  /\ sqrt_pc = "while"
  /\ sqrt_y < sqrt_x
  /\ sqrt_x' = sqrt_y
  /\ LET r == Outcome(BDiv(BAdd(Bal(sqrt_y), BDiv(Bal(sqrt_n), Bal(sqrt_y))),
                          Bal(2)))
     IN /\ sqrt_y' = r.val
        /\ sqrt_pc' = IF r.st = "panic" THEN "panic" ELSE "while"
  /\ UNCHANGED << overflow_checks, sqrt_n, rewards_vars, ssz_vars,
                  exec_vars >>

\* The loop ends and the function returns x.
SqrtReturn ==
  /\ sqrt_pc = "while"
  /\ ~(sqrt_y < sqrt_x)
  /\ sqrt_pc' = "returned"
  /\ UNCHANGED << overflow_checks, sqrt_n, sqrt_x, sqrt_y, rewards_vars,
                  ssz_vars, exec_vars >>

NextSqrt ==
  \/ SqrtEnter
  \/ SqrtIterate
  \/ SqrtReturn

SpecSqrt == InitSqrt /\ [][NextSqrt]_vars

(***************************************************************************)
(* The SSZ codec of FixedVec<bool, L>.  A byte is a number in 0 .. 255.    *)
(***************************************************************************)
\* Largest length L of a boolean vector.
MaxLen == 9
\* Largest number of bytes of an input that did not come from encode.
MaxInputBytes == 2

\* The bytes such an input is made of.
ByteValues == {0, 5, 255}

\* Bit k of a byte.
Bit(byte, k) == (byte \div (2 ^ k)) % 2

\* a << k on u8.
Shl(a, k) == (a * (2 ^ k)) % 256

\* a | b on u8.
BitOr(a, b) ==
  LET f[k \in 0 .. 8] ==
        IF k = 0 THEN 0
        ELSE f[k - 1] +
             (IF Bit(a, k - 1) = 1 \/ Bit(b, k - 1) = 1 THEN 2 ^ (k - 1) ELSE 0)
  IN f[8]

\* a & b on u8.
BitAnd(a, b) ==
  LET f[k \in 0 .. 8] ==
        IF k = 0 THEN 0
        ELSE f[k - 1] +
             (IF Bit(a, k - 1) = 1 /\ Bit(b, k - 1) = 1 THEN 2 ^ (k - 1) ELSE 0)
  IN f[8]

\* b as u8.
AsU8(b) == IF b THEN 1 ELSE 0

\* The variant of encode that packs the elements MSB-first.
encode_msb_first(self) ==
  LET resized == [j \in 1 .. (Len(self) + 7) \div 8 |-> 0]
      bytes[i \in 0 .. Len(self)] ==
        IF i = 0 THEN resized
        ELSE [bytes[i - 1] EXCEPT
                ![(i - 1) \div 8 + 1] =
                  BitOr(@, Shl(AsU8(self[i]), 7 - ((i - 1) % 8)))]
  IN bytes[Len(self)]

\* Encode for FixedVecRef<bool, L>; element i of the code is self[i + 1].
encode(self) ==
  LET resized == [j \in 1 .. (Len(self) + 7) \div 8 |-> 0]
      bytes[i \in 0 .. Len(self)] ==
        IF i = 0 THEN resized
        ELSE [bytes[i - 1] EXCEPT
                ![(i - 1) \div 8 + 1] =
                  BitOr(@, Shl(AsU8(self[i]), (i - 1) % 8))]
  IN bytes[Len(self)]

Ok(v) == [ok |-> TRUE, error |-> "none", vector |-> v]

Err(e) == [ok |-> FALSE, error |-> e, vector |-> << >>]

\* decode_bool_vector; step i of the function is iteration i - 1 of the
\* loop.
decode_bool_vector(value_, len_) ==
  LET loop[i \in 0 .. len_] ==
        IF i = 0 THEN Ok(<< >>)
        ELSE IF ~loop[i - 1].ok THEN loop[i - 1]
        ELSE IF (i - 1) \div 8 >= Len(value_) THEN Err("IncorrectSize")
        ELSE Ok(Append(loop[i - 1].vector,
                       BitAnd(value_[(i - 1) \div 8 + 1],
                              Shl(1, (i - 1) % 8)) # 0))
  IN loop[len_]

\* Decode for FixedVec<bool, L>.
decode(value_, L) == decode_bool_vector(value_, L)

\* The byte sequences of a length up to k over ByteValues.
RECURSIVE Inputs(_)
Inputs(k) ==
  IF k = 0 THEN {<< >>}
  ELSE Inputs(k - 1) \cup
       {Append(b, c) : b \in {i \in Inputs(k - 1) : Len(i) = k - 1},
                       c \in ByteValues}

InitSsz ==
  /\ SszIdle
  /\ RewardsIdle
  /\ SqrtIdle
  /\ ExecIdle

\* A vector of a length L is encoded.
SszEncode ==
  /\ ssz_pc = "idle"
  /\ \E l \in 0 .. MaxLen :
       \E v \in [1 .. l -> BOOLEAN] :
         /\ len' = l
         /\ vector' = v
         /\ value' = encode(v)
  /\ ssz_pc' = "encoded"
  /\ UNCHANGED << ret, rewards_vars, sqrt_vars, exec_vars >>

\* Bytes arrive to be decoded as a FixedVec<bool, L>.
SszReceive ==
  /\ ssz_pc = "idle"
  /\ \E l \in 0 .. MaxLen : len' = l
  /\ \E bytes \in Inputs(MaxInputBytes) : value' = bytes
  /\ ssz_pc' = "received"
  /\ UNCHANGED << vector, ret, rewards_vars, sqrt_vars, exec_vars >>

\* The bytes are decoded.
SszDecode ==
  /\ ssz_pc \in {"encoded", "received"}
  /\ ret' = decode(value, len)
  /\ ssz_pc' = IF ssz_pc = "encoded" THEN "round_trip" ELSE "decoded"
  /\ UNCHANGED << len, vector, value, rewards_vars, sqrt_vars, exec_vars >>

NextSsz ==
  \/ SszEncode
  \/ SszReceive
  \/ SszDecode

SpecSsz == InitSsz /\ [][NextSsz]_vars

(***************************************************************************)
(* The block executor.  Executor hands the BeaconState of the              *)
(* externalities (state_mut()) to the functions of the beacon crate, which *)
(* work on it in place; those functions follow the phases of the state     *)
(* transition.  A block root is the slot of its block.                     *)
(***************************************************************************)
\* Largest slot of a block.
MaxSlot == 3
\* Cap of the operations of a block.
MaxOperations == 2
\* Largest deposit index the model follows.
MaxDeposits == 3

Slots == 0 .. MaxSlot

\* Largest root of a justified checkpoint the model follows.
MaxRoot == 2

\* H256::default(), the all-zero hash.
ZeroHash == 0

Roots == ZeroHash .. MaxRoot

\* The fields of BeaconState the executor reads and writes, in a state
\* whose current justified checkpoint has the given root.
BeaconState(root) ==
  [slot |-> 0, latest_block_header |-> 0, deposit_index |-> 0,
   current_justified_checkpoint |-> [epoch |-> 0, root |-> root]]

Some(id) == [some |-> TRUE, id |-> id]

None == [some |-> FALSE, id |-> ZeroHash]

\* justified_block_id was not the last call.
NotAsked == [result |-> "none", id |-> None]

\* A variant of justified_block_id without the test for the zero hash.
justified_block_id_untested(s) ==
  [result |-> "Ok", id |-> Some(s.current_justified_checkpoint.root)]

\* JustifiableExecutor::justified_block_id on the state of the
\* externalities.
justified_block_id(s) ==
  LET justified_root == s.current_justified_checkpoint.root IN
  IF justified_root = ZeroHash
    THEN [result |-> "Ok", id |-> None]
    ELSE [result |-> "Ok", id |-> Some(justified_root)]

NoBlock == [slot |-> 0, parent_root |-> 0, operations |-> 0, sealed |-> TRUE]

Blocks == [slot : Slots, parent_root : Slots, signature_valid : BOOLEAN]

\* Slot advance: the slots up to the given one are processed.
process_slots(s, slot) == IF s.slot < slot THEN [s EXCEPT !.slot = slot] ELSE s

\* beacon::initialize_block.
beacon_initialize_block(s, target_slot) ==
  [state |-> process_slots(s, target_slot), result |-> "Ok",
   block |-> NoBlock]

\* beacon::apply_inherent: the parent is verified, then the header of the
\* new block becomes the latest block header.
beacon_apply_inherent(parent_block, s, inherent) ==
  IF parent_block.slot # s.latest_block_header \/ ~inherent.randao_valid
    THEN [state |-> s, result |-> "Err", block |-> NoBlock]
    ELSE [state |-> [s EXCEPT !.latest_block_header = s.slot],
          result |-> "Ok",
          block |-> [slot |-> s.slot, parent_root |-> parent_block.slot,
                     operations |-> 0, sealed |-> FALSE]]

\* beacon::apply_transaction: one operation (a deposit) is verified and
\* applied; exceeding the cap is an error.
beacon_apply_transaction(block, s, extrinsic) ==
  IF block.operations >= MaxOperations \/ ~extrinsic.valid
    THEN [state |-> s, result |-> "Err", block |-> block]
    ELSE [state |-> [s EXCEPT !.deposit_index = @ + 1],
          result |-> "Ok",
          block |-> [block EXCEPT !.operations = @ + 1]]

\* beacon::finalize_block: the header is sealed.
beacon_finalize_block(block, s) ==
  [state |-> s, result |-> "Ok", block |-> [block EXCEPT !.sealed = TRUE]]

\* beacon::execute_block: the phases in order on the state it is given:
\* slot advance, then the verification of the block, then the update of
\* the latest block header.
beacon_execute_block(block, s) ==
  LET advanced == process_slots(s, block.slot) IN
  IF \/ block.slot # advanced.slot
     \/ block.parent_root # advanced.latest_block_header
     \/ ~block.signature_valid
    THEN [state |-> advanced, result |-> "Err", block |-> NoBlock]
    ELSE [state |-> [advanced EXCEPT !.latest_block_header = block.slot],
          result |-> "Ok", block |-> NoBlock]

InitExec ==
  /\ \E root \in Roots : state = BeaconState(root)
  /\ pre_state = state
  /\ unsealed_block = NoBlock
  /\ exec_out = "none"
  /\ justified_out = NotAsked
  /\ RewardsIdle
  /\ SqrtIdle
  /\ SszIdle

\* Executor::initialize_block.
InitializeBlock ==
  /\ \E target_slot \in Slots :
       LET r == beacon_initialize_block(state, target_slot)
       IN /\ state' = r.state
          /\ exec_out' = r.result
  /\ pre_state' = state
  /\ justified_out' = NotAsked
  /\ UNCHANGED << unsealed_block, rewards_vars, sqrt_vars, ssz_vars >>

\* Executor::apply_inherent.
ApplyInherent ==
  /\ \E parent_block \in Blocks, inherent \in [randao_valid : BOOLEAN] :
       LET r == beacon_apply_inherent(parent_block, state, inherent)
       IN /\ state' = r.state
          /\ exec_out' = r.result
          /\ unsealed_block' = IF r.result = "Ok" THEN r.block
                                ELSE unsealed_block
  /\ pre_state' = state
  /\ justified_out' = NotAsked
  /\ UNCHANGED << rewards_vars, sqrt_vars, ssz_vars >>

\* Executor::apply_extrinsic.
ApplyExtrinsic ==
  /\ ~unsealed_block.sealed
  /\ state.deposit_index < MaxDeposits
  /\ \E extrinsic \in [valid : BOOLEAN] :
       LET r == beacon_apply_transaction(unsealed_block, state, extrinsic)
       IN /\ state' = r.state
          /\ exec_out' = r.result
          /\ unsealed_block' = r.block
  /\ pre_state' = state
  /\ justified_out' = NotAsked
  /\ UNCHANGED << rewards_vars, sqrt_vars, ssz_vars >>

\* Executor::finalize_block.
FinalizeBlock ==
  /\ ~unsealed_block.sealed
  /\ LET r == beacon_finalize_block(unsealed_block, state)
     IN /\ state' = r.state
        /\ exec_out' = r.result
        /\ unsealed_block' = r.block
  /\ pre_state' = state
  /\ justified_out' = NotAsked
  /\ UNCHANGED << rewards_vars, sqrt_vars, ssz_vars >>

\* Executor::execute_block.
ExecuteBlock ==
  /\ \E block \in Blocks :
       LET r == beacon_execute_block(block, state)
       IN /\ state' = r.state
          /\ exec_out' = r.result
  /\ pre_state' = state
  /\ justified_out' = NotAsked
  /\ UNCHANGED << unsealed_block, rewards_vars, sqrt_vars, ssz_vars >>

\* Executor::justified_block_id; it reads the state through state().
JustifiedBlockId ==
  /\ LET r == justified_block_id(state)
     IN /\ justified_out' = r
        /\ exec_out' = r.result
  /\ pre_state' = state
  /\ UNCHANGED << state, unsealed_block, rewards_vars, sqrt_vars, ssz_vars >>

NextExec ==
  \/ InitializeBlock
  \/ ApplyInherent
  \/ ApplyExtrinsic
  \/ FinalizeBlock
  \/ ExecuteBlock
  \/ JustifiedBlockId

SpecExec == InitExec /\ [][NextExec]_vars

(***************************************************************************)
(* The quantities of the reward formulas, taken from their definitions:    *)
(* B_tot, the floor square root, b(v) and p(v).  Machine(n) is n as the    *)
(* Balance type holds it.                                                  *)
(***************************************************************************)
RECURSIVE SumBalances(_)
SumBalances(S) ==
  IF S = {} THEN 0
  ELSE LET v == CHOOSE x \in S : TRUE IN balances[v] + SumBalances(S \ {v})

Machine(n) == n % Modulus

FloorSqrt(n) == CHOOSE r \in 0 .. n : r * r <= n /\ n < (r + 1) * (r + 1)

\* B_tot: the total balance of the validators active in the previous epoch,
\* as a value of the Balance type.
TotalActiveBalance == Machine(SumBalances(active[previous_epoch]))

\* isqrt(B_tot) / base_reward_quotient, the divisor of the base reward.
BaseDivisor == FloorSqrt(TotalActiveBalance) \div call.config.base_reward_quotient

\* b(v); -1 where the divisor is zero and b(v) has no value.
B(v) == IF BaseDivisor = 0 THEN -1 ELSE (balances[v] \div BaseDivisor) \div 5

\* p(v) in the Balance type.
P(v) ==
  Machine(B(v) +
          (Machine(balances[v] * call.epochs_since_finality)
             \div call.config.inactivity_penalty_quotient) \div 2)

Returned_ == pc = "done" /\ rewards_out.st = "returned"

NormalCall == Returned_ /\ call.epochs_since_finality <= 4

LeakCall == Returned_ /\ call.epochs_since_finality > 4

\* How often x occurs in the sequence s.
Count(s, x) == Cardinality({i \in 1 .. Len(s) : s[i] = x})

\* The two sequences hold the same elements the same number of times.
SameBag(s, t) ==
  /\ Len(s) = Len(t)
  /\ \A i \in 1 .. Len(s) : Count(s, s[i]) = Count(t, s[i])

\* The entries of the sequence that satisfy Test.
Only(s, Test(_)) == SelectSeq(s, Test)

SumAmounts(s) ==
  LET f[i \in 0 .. Len(s)] == IF i = 0 THEN 0 ELSE f[i - 1] + s[i].amount
  IN f[Len(s)]

Sub_(v, amount) == RewardAction(v, "Sub", amount)

Add_(v, amount) == RewardAction(v, "Add", amount)

IsSub(r) == r.action = "Sub"

IsAdd(r) == r.action = "Add"

\* The actions the leak-mode rules give for the entries of beacon_out and
\* casper_out and for the validators active in the previous epoch.
LeakExpected ==
  LET cfg == call.config
      Beacon(e) ==
        IF e.reward_type = "NoExpectedHead"
          THEN << Sub_(e.validator_id, P(e.validator_id)) >>
        ELSE IF e.reward_type = "InclusionDistance"
          THEN << Sub_(e.validator_id,
                       Machine(B(e.validator_id) -
                               Machine(B(e.validator_id) *
                                       cfg.min_attestation_inclusion_delay)
                                 \div e.distance)) >>
        ELSE << >>
      Casper(e) ==
        IF e.reward_type = "NoExpectedSource"
          THEN << Sub_(e.validator_id, B(e.validator_id)),
                  Sub_(e.validator_id, P(e.validator_id)) >>
          ELSE << >>
      Active(v) == << Sub_(v, Machine(Machine(2 * P(v)) + B(v))) >>
  IN FlatMap(beacon_out, Beacon) \o FlatMap(casper_out, Casper) \o
     FlatMap(SetToSeq(active[previous_epoch]), Active)

WithEntry(entries, type) ==
  {entries[i].validator_id :
     i \in {j \in 1 .. Len(entries) : entries[j].reward_type = type}}

\* Every entry of the reward type in the entries has the action
\* Add(b(v) * B_X / B_tot) in the returned rewards, B_X being the total
\* balance of the validators with an entry of that type.
CorrectAttestersEarn(entries, type) ==
  \A v \in WithEntry(entries, type) :
    /\ TotalActiveBalance > 0
    /\ \E i \in 1 .. Len(rewards_out.rewards) :
         rewards_out.rewards[i] =
           Add_(v, Machine(B(v) * Machine(SumBalances(WithEntry(entries, type))))
                     \div TotalActiveBalance)

\* C1: in normal mode every validator with an ExpectedX entry, X one of
\* ExpectedSource, ExpectedTarget, ExpectedHead, gets Add(b(v) * B_X / B_tot)
\* with B_X the total balance of the validators that have an ExpectedX entry
\* (here even where no step of the call wrapped).
C1_CorrectAttesterReward ==
  NormalCall /\ ~rewards_out.wrapped =>
    /\ CorrectAttestersEarn(beacon_out, "ExpectedHead")
    /\ CorrectAttestersEarn(casper_out, "ExpectedSource")
    /\ CorrectAttestersEarn(casper_out, "ExpectedTarget")

\* The validator is active at the store's previous and current epoch and at
\* the context's epoch and no attestation of the store is its own.
NeverAttests(v) ==
  /\ v \in active[previous_epoch]
  /\ v \in active[store_epoch]
  /\ v \in active[context.epoch]
  /\ \A i \in 1 .. Len(attestations) : attestations[i].validator_id # v

ActionsOf(v) ==
  LET Mine(r) == r.validator_id = v IN Only(rewards_out.rewards, Mine)

\* C3 as the specification states it: in leak mode an active validator
\* without any attestation loses 3 * p(v) + b(v) in all (here even where no
\* step of the call wrapped).
C3_Original ==
  LeakCall /\ ~rewards_out.wrapped =>
    \A v \in Validators :
      NeverAttests(v) => SumAmounts(ActionsOf(v)) = 3 * P(v) + B(v)

\* C3, amended: in leak mode a validator that is active at the store's
\* previous and current epoch and at the context's epoch and has no
\* attestation gets exactly four actions: Sub(p(v)) (NoExpectedHead),
\* Sub(b(v)) and Sub(p(v)) (NoExpectedSource) and Sub(2 * p(v) + b(v))
\* (punish-active), which sum to 4 * p(v) + 2 * b(v) where no step wrapped.
C3_NeverAttestsLoss ==
  LeakCall =>
    \A v \in Validators :
      NeverAttests(v) =>
        /\ SameBag(ActionsOf(v),
                   << Sub_(v, P(v)), Sub_(v, B(v)), Sub_(v, P(v)),
                      Sub_(v, Machine(Machine(2 * P(v)) + B(v))) >>)
        /\ ~rewards_out.wrapped =>
             SumAmounts(ActionsOf(v)) = 4 * P(v) + 2 * B(v)

\* C3 witness: a leak-mode call that returned, without a wrapped step, for
\* a store with a validator that never attests and has p(v) > b(v) > 0,
\* while another validator attests.
C3_Witness ==
  /\ LeakCall
  /\ ~rewards_out.wrapped
  /\ attestations # << >>
  /\ \E v \in Validators : NeverAttests(v) /\ B(v) > 0 /\ P(v) > B(v)

\* C6: no arithmetic step of default_scheme_rewards wraps: a call that
\* returns its rewards has computed them without a wrapped step.
C6_NoWraparound == Returned_ => ~rewards_out.wrapped

\* Every validator active in the previous epoch (the same set is active in
\* the current epoch and at the context's epoch) has exactly one
\* attestation, with target epoch = previous epoch, expected source, canon
\* target, canon slot and inclusion distance 1, and the store holds no
\* other attestation.
FullParticipation ==
  /\ active[store_epoch] = active[previous_epoch]
  /\ active[context.epoch] = active[previous_epoch]
  /\ active[previous_epoch] # {}
  /\ Len(attestations) = Cardinality(active[previous_epoch])
  /\ \A v \in active[previous_epoch] :
       \E i \in 1 .. Len(attestations) :
         attestations[i] =
           [ validator_id |-> v,
             source_epoch |-> context.previous_justified_epoch,
             target_epoch |-> previous_epoch,
             is_casper_canon |-> TRUE,
             is_slot_canon |-> TRUE,
             inclusion_distance |-> 1 ]

\* C7: full participation in normal mode with
\* min_attestation_inclusion_delay = 1: the actions of every validator are
\* Add actions only and sum to exactly 4 * b(v).
C7_FullParticipation ==
  NormalCall /\ FullParticipation
    /\ call.config.min_attestation_inclusion_delay = 1 =>
    \A v \in active[previous_epoch] :
      /\ \A i \in 1 .. Len(ActionsOf(v)) : IsAdd(ActionsOf(v)[i])
      /\ SumAmounts(ActionsOf(v)) = 4 * B(v)

\* The Sub actions the normal-mode rules give: Sub(b(v)) for every
\* NoExpectedHead, NoExpectedSource and NoExpectedTarget entry.
NormalSubsExpected ==
  LET Lose(e) ==
        IF e.reward_type \in {"NoExpectedHead", "NoExpectedSource",
                              "NoExpectedTarget"}
          THEN << Sub_(e.validator_id, B(e.validator_id)) >>
          ELSE << >>
  IN FlatMap(beacon_out, Lose) \o FlatMap(casper_out, Lose)

\* C8: in normal mode (epochs_since_finality <= 4) the Sub actions
\* default_scheme_rewards returns are exactly one Sub(b(v)) for each
\* NoExpectedHead, NoExpectedSource and NoExpectedTarget entry.
C8_NormalPenalties ==
  NormalCall => SameBag(Only(rewards_out.rewards, IsSub), NormalSubsExpected)

\* C8 witness: a normal-mode call at epochs_since_finality = 4 that returned
\* a positive Sub for an entry of each of the three kinds, next to Add
\* actions.
C8_Witness ==
  /\ NormalCall
  /\ call.epochs_since_finality = 4
  /\ \E i \in 1 .. Len(beacon_out) : beacon_out[i].reward_type = "NoExpectedHead"
  /\ \A t \in {"NoExpectedSource", "NoExpectedTarget"} :
       \E i \in 1 .. Len(casper_out) : casper_out[i].reward_type = t
  /\ \E i \in 1 .. Len(rewards_out.rewards) :
       IsSub(rewards_out.rewards[i]) /\ rewards_out.rewards[i].amount > 0
  /\ \E i \in 1 .. Len(rewards_out.rewards) : IsAdd(rewards_out.rewards[i])

\* C10: the base reward is balance(v) / (isqrt(B_tot) / base_reward_quotient)
\* / 5 where integer_sqrt(n) terminates for every n and returns the floor
\* square root of n: no call of integer_sqrt panics and a call that has
\* returned has returned the r with r * r <= n < (r + 1) * (r + 1).
C10_IntegerSqrt ==
  /\ sqrt_pc # "panic"
  /\ sqrt_pc = "returned" => sqrt_x = FloorSqrt(sqrt_n)

\* ceil(L / 8).
CeilDiv8(L) == IF L % 8 = 0 THEN L \div 8 ELSE L \div 8 + 1

\* C5: a fixed-length vector decoder returns Ok only for an input of exactly
\* the expected encoded length (ceil(L / 8) bytes for a boolean vector),
\* InvalidLength for any other length and IncorrectSize when the input is
\* too short to reach a byte it needs.
C5_RejectsWrongLength ==
  ssz_pc \in {"decoded", "round_trip"} =>
    /\ ret.ok => Len(value) = CeilDiv8(len)
    /\ Len(value) # CeilDiv8(len) =>
         ret.error \in {"InvalidLength", "IncorrectSize"}
    /\ Len(value) < CeilDiv8(len) => ret.error = "IncorrectSize"

\* C9: for every boolean vector x of length L, decoding encode(x) as
\* FixedVec<bool, L> returns Ok(x); encode produces exactly ceil(L / 8)
\* bytes, stores element i in bit (i mod 8) of byte i / 8 and leaves every
\* padding bit zero.
C9_BoolVectorRoundTrip ==
  /\ ssz_pc \in {"encoded", "round_trip"} =>
       /\ Len(vector) = len
       /\ Len(value) = CeilDiv8(len)
       /\ \A i \in 0 .. len - 1 :
            Bit(value[i \div 8 + 1], i % 8) = 1 <=> vector[i + 1]
       /\ \A i \in len .. 8 * Len(value) - 1 :
            Bit(value[i \div 8 + 1], i % 8) = 0
  /\ ssz_pc = "round_trip" => ret = Ok(vector)

\* C9 witness: a vector of more than eight elements, some true (the last
\* one among them) and some false, came back from the round trip.
C9_Witness ==
  /\ ssz_pc = "round_trip"
  /\ len > 8
  /\ vector[len]
  /\ \E i \in 1 .. len : ~vector[i]
  /\ \E i \in 1 .. 8 : vector[i]
  /\ ret.ok

C11_JustifiedBlockId ==
  justified_out.result # "none" =>
    /\ justified_out.result = "Ok"
    /\ exec_out = "Ok"
    /\ ~justified_out.id.some <=>
         state.current_justified_checkpoint.root = ZeroHash
    /\ justified_out.id.some =>
         justified_out.id.id = state.current_justified_checkpoint.root
    /\ state = pre_state

\* C11 witness: justified_block_id returned Some of a non-zero root for a
\* state that a block has been executed on.
C11_Witness ==
  /\ justified_out.result = "Ok"
  /\ justified_out.id.some
  /\ justified_out.id.id # ZeroHash
  /\ state.latest_block_header > 0

\* The number of attestations of the store that satisfy the test.
CountAttestations(Test(_)) ==
  Cardinality({i \in 1 .. Len(attestations) : Test(attestations[i])})

\* The reward functions have been called on the store.
Classified == pc \in {"casper", "done"}

\* The number of entries of casper_rewards for the validator with a reward
\* type among the types.
CasperCount(v, types) ==
  Cardinality({i \in 1 .. Len(casper_out) :
                 /\ casper_out[i].validator_id = v
                 /\ casper_out[i].reward_type \in types})

\* C12: casper_rewards gives every validator active at the context epoch
\* exactly one entry from {ExpectedSource, NoExpectedSource} and exactly one
\* from {ExpectedTarget, NoExpectedTarget}, whatever the number of its
\* attestations; ExpectedSource iff the validator has an attestation whose
\* source epoch is previous_justified_epoch, and ExpectedTarget only
\* together with ExpectedSource from the same attestation.
C12_ClassifiedOnce ==
  Classified =>
    \A v \in active[context.epoch] :
      LET Source(a) == /\ a.validator_id = v
                       /\ a.source_epoch = context.previous_justified_epoch
          Target(a) == Source(a) /\ a.is_casper_canon
      IN /\ CasperCount(v, {"ExpectedSource", "NoExpectedSource"}) = 1
         /\ CasperCount(v, {"ExpectedTarget", "NoExpectedTarget"}) = 1
         /\ CasperCount(v, {"ExpectedSource"}) > 0 <=>
              CountAttestations(Source) > 0
         /\ CasperCount(v, {"ExpectedTarget"}) > 0 =>
              CountAttestations(Target) > 0

\* The number of entries of beacon_rewards equal to the entry.
BeaconCount(entry) == Count(beacon_out, entry)

\* C13: beacon_rewards looks only at the attestations whose target epoch is
\* the store's previous epoch: each of them gives InclusionDistance(d), d
\* its inclusion distance, and ExpectedHead iff its slot is canon;
\* NoExpectedHead is given exactly once to every validator active at the
\* store's current epoch without such a canon-slot attestation and to no
\* other validator; there is no other entry.
C13_BeaconClassification ==
  pc # "collect" =>
    /\ \A v \in Validators :
         LET Mine(a) == a.validator_id = v /\ a.target_epoch = previous_epoch
             Canon(a) == Mine(a) /\ a.is_slot_canon
         IN /\ \A d \in 0 .. MaxDistance :
                 LET At(a) == Mine(a) /\ a.inclusion_distance = d
                 IN BeaconCount(BeaconEntry(v, "InclusionDistance", d)) =
                      CountAttestations(At)
            /\ BeaconCount(BeaconEntry(v, "ExpectedHead", 0)) =
                 CountAttestations(Canon)
            /\ BeaconCount(BeaconEntry(v, "NoExpectedHead", 0)) =
                 IF v \in active[store_epoch] /\ CountAttestations(Canon) = 0
                   THEN 1 ELSE 0
    /\ \A i \in 1 .. Len(beacon_out) :
         \/ /\ beacon_out[i].reward_type = "InclusionDistance"
            /\ beacon_out[i].distance \in 1 .. MaxDistance
         \/ /\ beacon_out[i].reward_type \in {"ExpectedHead", "NoExpectedHead"}
            /\ beacon_out[i].distance = 0

\* C13 witness: a store with an attestation for the previous epoch on a
\* canon slot, one for the previous epoch at distance 2 on another slot and
\* a validator in each of the classes ExpectedHead and NoExpectedHead.
C13_Witness ==
  /\ pc # "collect"
  /\ \E i \in 1 .. Len(attestations) :
       /\ attestations[i].target_epoch = previous_epoch
       /\ ~attestations[i].is_slot_canon
       /\ attestations[i].inclusion_distance = 2
  /\ \E i, j \in 1 .. Len(beacon_out) :
       /\ beacon_out[i].reward_type = "ExpectedHead"
       /\ beacon_out[j].reward_type = "NoExpectedHead"
       /\ beacon_out[j].validator_id \in
            {attestations[k].validator_id : k \in 1 .. Len(attestations)}

\* default_scheme_rewards on the arguments of the call in a build without
\* overflow checks, where no step but a division by zero panics.
Unchecked ==
  default_scheme_rewards(beacon_out, casper_out, call.epochs_since_finality,
                         call.config)

\* C14: default_scheme_rewards never divides by zero: when the total
\* balance of the validators active in the previous epoch is positive, the
\* quotients and min_attestation_inclusion_delay of the config are positive
\* and every inclusion distance is at least 1, no division of the call has
\* a zero divisor and the call returns a reward list.
C14_NoDivisionByZero ==
  /\ pc = "done"
  /\ TotalActiveBalance > 0
  /\ call.config.base_reward_quotient > 0
  /\ call.config.inactivity_penalty_quotient > 0
  /\ call.config.min_attestation_inclusion_delay > 0
  /\ \A i \in 1 .. Len(beacon_out) :
       beacon_out[i].reward_type = "InclusionDistance" =>
         beacon_out[i].distance >= 1
  => Unchecked.st = "returned"

====
